---- MODULE Spec2Model ----
(***************************************************************************)
(* Model of src/src/github_analyzer.py: the paginated collection loop      *)
(* GitHubAnalyzer.fetch_top_repositories, the run driver main() with its   *)
(* file writes, and the functions process_repository_data (the closed      *)
(* issues percentage, in float arithmetic) and print_detailed_stats (the   *)
(* medians), each followed on its own.                                     *)
(*                                                                         *)
(* A raw repository (an edge's node) is [url, ok]: its identity and        *)
(* whether process_repository_data returns for it (ok) or raises.  A       *)
(* derived record is represented by its url, the identity key.  The remote *)
(* source is a fixed sequence of pages; a cursor is the index of the last  *)
(* page served (0 is Python's None).                                       *)
(***************************************************************************)
EXTENDS Integers, Sequences, FiniteSets, TLC

\* ---------------------------------------------------------------- bounds
MaxPages == 2
MaxPageSize == 2
MaxUrl == 3
MaxLimit == 2
MaxFaults == 2
MaxBaseline == 2
MaxWritten == 1
MaxAge == 2
MaxSample == 4
MaxIssues == 160

\* ------------------------------------------------------ program constants
max_per_request == 100
Lab01S01Target == 100
Lab01S02Target == 1000
CompleteThreshold == 1000
CheckpointThreshold == 200
PauseEvery == 5

None == 0

\* A CSV file: whether it exists, its rows (a record is its url), and whether
\* the numeric columns of every row convert with int() / float().
NoFile == [exists |-> FALSE, rows |-> <<>>, numeric |-> TRUE]
FileOf(rows) == [exists |-> TRUE, rows |-> rows, numeric |-> TRUE]
Garbled(rows) == [exists |-> TRUE, rows |-> rows, numeric |-> FALSE]

Min(a, b) == IF a < b THEN a ELSE b

RECURSIVE SeqsUpTo(_, _)
SeqsUpTo(S, n) ==
    IF n = 0 THEN {<<>>}
    ELSE LET shorter == SeqsUpTo(S, n - 1)
         IN  shorter \cup {Append(s, x) : s \in {t \in shorter : Len(t) = n - 1}, x \in S}

RECURSIVE SumLen(_)
SumLen(pages) ==
    IF pages = <<>> THEN 0
    ELSE Len(Head(pages).edges) + SumLen(Tail(pages))

\* ------------------------------------------------------------ the source
\* The url of the j-th record the source holds (urls repeat once the source
\* holds more than MaxUrl records: search results are not unique per url).
UrlAt(j) == ((j - 1) % MaxUrl) + 1

PageShapes == [oks : SeqsUpTo(BOOLEAN, MaxPageSize), hasNextPage : BOOLEAN]

RECURSIVE MakePages(_, _)
MakePages(shapes, before) ==
    IF shapes = <<>> THEN <<>>
    ELSE LET sh == Head(shapes)
             page == [edges |-> [j \in 1..Len(sh.oks) |->
                                    [url |-> UrlAt(before + j), ok |-> sh.oks[j]]],
                      hasNextPage |-> sh.hasNextPage]
         IN  <<page>> \o MakePages(Tail(shapes), before + Len(sh.oks))

\* The loop asks for the page after a page only when that page held records
\* and reported hasNextPage (lines 185-187, 208-212): a source is given as
\* the pages it can be asked for, the last of them of any shape.
Served(shapes) ==
    \A i \in 1..(Len(shapes) - 1) : shapes[i].oks # <<>> /\ shapes[i].hasNextPage

Sources(n) ==
    {MakePages(shapes, 0) : shapes \in {sh \in SeqsUpTo(PageShapes, n) : Served(sh)}}

EmptyPage == [edges |-> <<>>, hasNextPage |-> FALSE]

\* The page the source serves for a query built with `after: cursor`.  The
\* loop never reads how many records it asked for (`first`), and the source
\* is not assumed to honour it: line 192 guards against a longer page.
PageAfter(src, c) == IF c + 1 <= Len(src) THEN src[c + 1] ELSE EmptyPage

\* ---------------------------------------------------------------- state
VARIABLES
    source,          \* the remote source: sequence of pages
    entry,           \* "fetch": fetch_top_repositories called directly; "main": main()
    limit,           \* fetch_top_repositories: parameter limit
    repositories,    \* fetch_top_repositories: repositories
    cursor,          \* fetch_top_repositories: cursor (None = 0)
    page_count,      \* fetch_top_repositories: page_count
    request,         \* the query in flight: [after, first]
    result,          \* the page of the response to it, once there is one
    repos_processed, \* fetch_top_repositories: repos_processed of the last page
    pc,              \* position in fetch_top_repositories
    outcome,         \* what the query in flight came back with
    exit,            \* why the loop ended
    faults,          \* number of passes that ended in the handler of line 220
    paused,          \* page numbers after which time.sleep(2) ran
    lost,            \* number of times line 212 assigned None to cursor
    token,           \* whether GITHUB_TOKEN is set
    file,            \* data/repositories_data.csv: NoFile or its rows
    file0,           \* the same file when the run started
    backup,          \* the rows of the backup copy written by this run
    checkpoint,      \* the checkpoint file written by this run
    checkpoint_backup, \* the backup copy of the checkpoint file
    mpc,             \* position in main()
    existing_data,   \* main: existing_data
    response,        \* main: response ("none" before the prompt)
    main_repositories, \* main: repositories
    target,          \* main: target
    remaining_repos, \* main: remaining_repos
    handed,          \* the record sets passed to save_to_csv_with_backup, call by call
    writes,          \* the file writes attempted by the call at line 509, in order
    stats,           \* the sizes print_detailed_stats was called with
    repo,            \* process_repository_data: the issue counts of the raw record
    repo_data,       \* process_repository_data: the derived record's percentage
    dpc,             \* position in process_repository_data
    sample,          \* print_detailed_stats: the records summarised
    medians,         \* print_detailed_stats: median_age and median_ratio
    spc              \* position in print_detailed_stats

loopVars == <<limit, repositories, cursor, page_count, request, result,
              repos_processed, pc, outcome, exit, faults, paused, lost>>

mainVars == <<token, file, file0, backup, checkpoint, checkpoint_backup, mpc, existing_data, response,
              main_repositories, target, remaining_repos, handed, writes, stats>>

pureVars == <<repo, repo_data, dpc, sample, medians, spc>>

vars == <<source, entry, loopVars, mainVars, pureVars>>

\* The values of the variables of process_repository_data and
\* print_detailed_stats while neither is being followed.
NoRepo == [total_issues |-> 0, closed_issues |-> 0]
NoData == [closed_issues_percentage |-> 0]
NoMedians == [age_days |-> 0, closed_issues_percentage |-> 0]

\* ------------------------------------------- fetch_top_repositories
NoRequest == [after |-> None, first |-> 0]
NoResult == [edges |-> <<>>, hasNextPage |-> FALSE]

\* What a request can come back with: a non-200 status, or a 200 body.  A
\* body has an 'errors' key or not (errors); its 'data' is "absent" (no
\* key), "null" ('data' or data.search is None), "no_search" (a dict without
\* 'search') or "search"; and the pagination of data.search, as far as the
\* loop reads it, is "full" (pageInfo with hasNextPage and an endCursor),
\* "missing" (no pageInfo, or pageInfo without a key that is read) or
\* "null_endCursor" (endCursor is None).
NoOutcome == [kind |-> "none", errors |-> FALSE, data |-> "absent", pageInfo |-> "none"]
Transport == [kind |-> "transport", errors |-> FALSE, data |-> "absent", pageInfo |-> "none"]
Paginations == {"full", "missing", "null_endCursor"}
Bodies ==
    [kind : {"body"}, errors : BOOLEAN, data : {"absent", "null", "no_search"},
     pageInfo : {"none"}]
    \cup [kind : {"body"}, errors : BOOLEAN, data : {"search"}, pageInfo : Paginations]

\* The variables of fetch_top_repositories, as one record.
LoopNow ==
    [limit |-> limit, repositories |-> repositories, cursor |-> cursor,
     page_count |-> page_count, request |-> request, result |-> result,
     repos_processed |-> repos_processed, pc |-> pc, outcome |-> outcome,
     exit |-> exit, faults |-> faults, paused |-> paused, lost |-> lost]

SetLoop(r) ==
    /\ limit' = r.limit
    /\ repositories' = r.repositories
    /\ cursor' = r.cursor
    /\ page_count' = r.page_count
    /\ request' = r.request
    /\ result' = r.result
    /\ repos_processed' = r.repos_processed
    /\ pc' = r.pc
    /\ outcome' = r.outcome
    /\ exit' = r.exit
    /\ faults' = r.faults
    /\ paused' = r.paused
    /\ lost' = r.lost

\* lines 149-155: the locals when the loop is first reached
Entered(lim) ==
    [limit |-> lim, repositories |-> <<>>, cursor |-> None, page_count |-> 0,
     request |-> NoRequest, result |-> NoResult, repos_processed |-> 0,
     pc |-> "loop", outcome |-> NoOutcome, exit |-> "none", faults |-> 0,
     paused |-> {}, lost |-> 0]

\* line 234: the call has returned and its locals are gone; exit keeps why
\* the loop ended
Discarded == [Entered(0) EXCEPT !.pc = "idle", !.exit = exit]

\* lines 149-155
EnterFetch(lim) == SetLoop(Entered(lim))

\* lines 230-234
Return(reason) ==
    /\ pc' = "returned"
    /\ exit' = reason

\* lines 157-167: the loop test and the construction of the page query,
\* which has no response yet
LoopHead ==
    /\ pc = "loop"
    /\ IF Len(repositories) < limit
       THEN /\ page_count' = page_count + 1
            /\ request' = [after |-> cursor,
                           first |-> Min(max_per_request, limit - Len(repositories))]
            /\ outcome' = NoOutcome
            /\ result' = NoResult
            /\ pc' = "fetching"
            /\ exit' = exit
       ELSE /\ Return("limit")
            /\ UNCHANGED <<page_count, request, outcome, result>>
    /\ UNCHANGED <<mainVars, source, entry, pureVars, limit, repositories, cursor,
                   repos_processed, faults, paused, lost>>

\* lines 220-228: the handler of exception e raised inside the try block
Handler(e) ==
    IF cursor # None
    THEN pc' = "loop" /\ exit' = exit
    ELSE Return(e)

\* lines 82-83 then 220-228: non-200 status, make_graphql_request raises
FetchTransportError ==
    /\ pc = "fetching"
    /\ faults + lost < MaxFaults
    /\ faults' = faults + 1
    /\ outcome' = Transport
    /\ Handler("transport_error")
    /\ UNCHANGED <<mainVars, source, entry, pureVars, limit, repositories, cursor, page_count,
                   request, result, repos_processed, paused, lost>>

\* Mutant of Classify: an 'errors' payload always ends the loop.
Classify_ErrorsFatal(body) ==
    IF body.errors THEN "break_errors"
    ELSE IF body.data = "absent" THEN "break_invalid"
    ELSE IF body.data = "null" THEN "raise"
    ELSE IF body.data = "no_search" THEN "break_invalid"
    ELSE "process"

\* lines 172-183: what the loop does with a 200 body.  body.errors: the body
\* has an 'errors' key; body.data: "absent" (no 'data' key), "null" ('data'
\* or data.search is None: TypeError at line 179 or 183), "no_search" (a
\* dict without 'search'), "search" (data.search is there).
Classify(body) ==
    IF body.errors /\ body.data = "absent" THEN "break_errors"
    ELSE IF body.data = "absent" THEN "break_invalid"
    ELSE IF body.data = "null" THEN "raise"
    ELSE IF body.data = "no_search" THEN "break_invalid"
    ELSE "process"

\* Mutant of Ingest: without the test of line 192.
RECURSIVE Ingest_NoBound(_, _, _)
Ingest_NoBound(repos, edges, lim) ==
    IF edges = <<>> THEN repos
    ELSE IF Head(edges).ok
         THEN Ingest_NoBound(Append(repos, Head(edges).url), Tail(edges), lim)
         ELSE Ingest_NoBound(repos, Tail(edges), lim)

\* Mutant of Ingest: a record that fails derivation ends the page.
RECURSIVE Ingest_StopsAtFailure(_, _, _)
Ingest_StopsAtFailure(repos, edges, lim) ==
    IF edges = <<>> \/ Len(repos) >= lim THEN repos
    ELSE IF Head(edges).ok
         THEN Ingest_StopsAtFailure(Append(repos, Head(edges).url), Tail(edges), lim)
         ELSE repos

\* lines 191-201: the records appended by the loop over the edges
RECURSIVE Ingest(_, _, _)
Ingest(repos, edges, lim) ==
    IF edges = <<>> \/ Len(repos) >= lim THEN repos
    ELSE IF Head(edges).ok
         THEN Ingest(Append(repos, Head(edges).url), Tail(edges), lim)
         ELSE Ingest(repos, Tail(edges), lim)

\* Mutants of LastPage: one test of line 208 dropped.
LastPage_IgnoresLimit(hasNextPage, n, lim) == ~hasNextPage
LastPage_IgnoresHasNext(hasNextPage, n, lim) == n >= lim

\* line 208
LastPage(hasNextPage, n, lim) == ~hasNextPage \/ n >= lim

\* line 215
PauseDue(n) == n % PauseEvery = 0

\* What the loop can find in the pagination of a page: it reads nothing of
\* a page without records (line 187 breaks), and no endCursor of a page that
\* is the last (line 210 breaks).
ReadOf(page, repos, lim) ==
    IF page.edges = <<>> THEN {"full"}
    ELSE IF LastPage(page.hasNextPage, Len(Ingest(repos, page.edges, lim)), lim)
    THEN {"full", "missing"}
    ELSE Paginations

\* The bodies the request in flight can come back with: the parts of the
\* pagination that are not read are left out of them
Answers ==
    LET page == PageAfter(source, request.after)
    IN  {body \in Bodies :
            /\ Classify(body) = "process" =>
                  body.pageInfo \in ReadOf(page, repositories, limit)
            /\ (Classify(body) = "raise"
                  \/ body.pageInfo \in {"missing", "null_endCursor"}) =>
                  faults + lost < MaxFaults}

\* line 183: the page of a body, where the loop comes to read it
Received(body) ==
    LET page == PageAfter(source, request.after)
    IN  IF Classify(body) = "process"
        THEN [edges |-> page.edges, hasNextPage |-> page.hasNextPage]
        ELSE NoResult

\* lines 85 and 172-183: make_graphql_request returns a 200 body
FetchBody ==
    /\ pc = "fetching"
    /\ \E body \in Answers :
          LET verdict == Classify(body)
          IN  /\ outcome' = body
              /\ faults' = IF verdict = "raise" THEN faults + 1 ELSE faults
              /\ result' = Received(body)
              /\ CASE verdict = "process" -> pc' = "processing" /\ exit' = exit
                   [] verdict = "raise" -> Handler("type_error")
                   [] verdict = "break_errors" -> Return("errors")
                   [] verdict = "break_invalid" -> Return("invalid")
    /\ UNCHANGED <<mainVars, source, entry, pureVars, limit, repositories, cursor, page_count,
                   request, repos_processed, paused, lost>>

\* lines 206-212: reading the pagination raises KeyError (no pageInfo at
\* line 206, no hasNextPage at line 208, no endCursor at line 212)
PageRaises(body) == body.pageInfo = "missing"

\* line 212: the cursor taken from the page that was asked with `after`
EndCursor(body, after) ==
    IF body.pageInfo = "null_endCursor" THEN None ELSE after + 1

\* lines 183-218.  The records of the page are appended before its
\* pagination is read: when that raises, the handler of line 220 runs with
\* the records kept and the cursor as it was.
ProcessPage ==
    /\ pc = "processing"
    /\ IF result.edges = <<>>
       THEN /\ Return("empty")
            /\ UNCHANGED <<repositories, repos_processed, cursor, paused, faults,
                           lost>>
       ELSE LET repos == Ingest(repositories, result.edges, limit)
                last == LastPage(result.hasNextPage, Len(repos), limit)
            IN  /\ repositories' = repos
                /\ repos_processed' = Len(repos) - Len(repositories)
                /\ IF PageRaises(outcome)
                   THEN /\ faults' = faults + 1
                        /\ Handler("key_error")
                        /\ UNCHANGED <<cursor, paused, lost>>
                   ELSE IF last
                   THEN /\ Return("last")
                        /\ UNCHANGED <<cursor, paused, faults, lost>>
                   ELSE /\ cursor' = EndCursor(outcome, request.after)
                        /\ lost' = IF cursor' = None THEN lost + 1 ELSE lost
                        /\ paused' = IF PauseDue(page_count)
                                     THEN paused \cup {page_count} ELSE paused
                        /\ pc' = "loop"
                        /\ exit' = exit
                        /\ UNCHANGED faults
    /\ UNCHANGED <<mainVars, source, entry, pureVars, limit, page_count, request, result,
                   outcome>>

\* The points at which KeyboardInterrupt can find fetch_top_repositories,
\* as the values of its variables there.  At the head of the loop (lines
\* 157-167): before the test, after line 158 counted the page, after line
\* 167 built the query.  In the request (line 170) and after it: nothing
\* received; a body received (lines 172-183); in the handler (lines 221-222)
\* after the request or line 179/183 raised.  While a page is processed:
\* after line 190, after each append (line 197) and each count (line 198),
\* in the handler after the pagination raised, after line 212 assigned the
\* cursor, and in time.sleep (line 218).
Cuts ==
    LET now == LoopNow
        n == Len(result.edges)
        upto(j) == Ingest(repositories, SubSeq(result.edges, 1, j), limit)
        count(j) == Len(upto(j)) - Len(repositories)
        at(j, k) == [now EXCEPT !.repositories = upto(j), !.repos_processed = count(k)]
        done == at(n, n)
        last == LastPage(result.hasNextPage, Len(upto(n)), limit)
        next == EndCursor(outcome, request.after)
        moved == [done EXCEPT !.cursor = next,
                              !.lost = IF next = None THEN lost + 1 ELSE lost]
        counted == [now EXCEPT !.page_count = page_count + 1]
        asked == [counted EXCEPT
                     !.request = [after |-> cursor,
                                  first |-> Min(max_per_request,
                                                limit - Len(repositories))],
                     !.outcome = NoOutcome, !.result = NoResult]
        got(body) == [now EXCEPT !.outcome = body, !.result = Received(body)]
    IN  CASE pc = "loop" ->
               {now} \cup IF Len(repositories) < limit THEN {counted, asked} ELSE {}
          [] pc = "fetching" ->
               {now}
               \cup (IF faults + lost < MaxFaults
                     THEN {[now EXCEPT !.outcome = Transport, !.faults = faults + 1]}
                     ELSE {})
               \cup {got(body) : body \in Answers}
               \cup {[got(body) EXCEPT !.faults = faults + 1] :
                        body \in {b \in Answers : Classify(b) = "raise"}}
          [] pc = "processing" /\ n > 0 ->
               {now}
               \cup {at(j, j) : j \in 0..n}
               \cup {at(j, j - 1) : j \in 1..n}
               \cup (IF PageRaises(outcome)
                     THEN {[done EXCEPT !.faults = faults + 1]}
                     ELSE IF last THEN {}
                     ELSE {moved}
                          \cup IF PauseDue(page_count)
                               THEN {[moved EXCEPT !.paused = paused \cup {page_count}]}
                               ELSE {})
          [] OTHER -> {now}

\* KeyboardInterrupt while fetch_top_repositories runs.  It is not an
\* Exception: it passes the handlers at lines 199 and 220 and, under main,
\* reaches lines 528-530, which only print.
Interrupt ==
    /\ pc \in {"loop", "fetching", "processing"}
    /\ \E c \in Cuts : SetLoop([c EXCEPT !.pc = "interrupted", !.exit = "interrupt"])
    /\ mpc' = IF entry = "main" THEN "interrupted" ELSE mpc
    /\ UNCHANGED <<source, entry, pureVars, token, response, file, file0, backup,
                   checkpoint, checkpoint_backup, existing_data, main_repositories,
                   target, remaining_repos, handed, writes, stats>>

\* ------------------------------ fetch_top_repositories(limit) on its own
\* The call is left to run until it returns; KeyboardInterrupt, which ends
\* it without a return, is followed under main().
LoopNext ==
    \/ LoopHead
    \/ FetchTransportError
    \/ FetchBody
    \/ ProcessPage

InitLoop(sources, limits) ==
    /\ source \in sources
    /\ entry = "fetch"
    /\ limit \in limits
    /\ repositories = <<>>
    /\ cursor = None
    /\ page_count = 0
    /\ request = NoRequest
    /\ result = NoResult
    /\ repos_processed = 0
    /\ pc = "loop"
    /\ outcome = NoOutcome
    /\ exit = "none"
    /\ faults = 0
    /\ paused = {}
    /\ lost = 0
    /\ token = TRUE
    /\ file = NoFile
    /\ file0 = NoFile
    /\ backup = NoFile
    /\ checkpoint = NoFile
    /\ checkpoint_backup = NoFile
    /\ mpc = "none"
    /\ existing_data = <<>>
    /\ response = "none"
    /\ main_repositories = <<>>
    /\ target = 0
    /\ remaining_repos = <<>>
    /\ handed = <<>>
    /\ writes = <<>>
    /\ stats = <<>>
    /\ repo = NoRepo
    /\ repo_data = NoData
    /\ dpc = "idle"
    /\ sample = <<>>
    /\ medians = NoMedians
    /\ spc = "idle"

InitFetch == InitLoop(Sources(MaxPages), 0..MaxLimit)

SpecFetch == InitFetch /\ [][LoopNext]_vars

\* ------------------- fetch_top_repositories(5) against pages of 2, 2 and 1
\* The sources that hold three pages, of 2, 2 and 1 records.
ScenarioSources ==
    {MakePages(shapes, 0) :
        shapes \in {sh \in [1..3 -> PageShapes] :
                       /\ Len(sh[1].oks) = 2
                       /\ Len(sh[2].oks) = 2
                       /\ Len(sh[3].oks) = 1}}

InitScenario == InitLoop(ScenarioSources, {5})

SpecScenario == InitScenario /\ [][LoopNext]_vars

\* --------- fetch_top_repositories against PauseEvery pages of one record
\* The sources that hold PauseEvery pages of one record each: the loop can
\* then reach its PauseEvery-th request with a cursor set.
PacingSources ==
    {MakePages(shapes, 0) :
        shapes \in {sh \in [1..PauseEvery -> PageShapes] :
                       \A i \in 1..PauseEvery : Len(sh[i].oks) = 1}}

InitPacing == InitLoop(PacingSources, {PauseEvery + 1})

SpecPacing == InitPacing /\ [][LoopNext]_vars

\* ------------------------------------------------------------------ main
\* lines 343-369: the rows of the file; [] when it does not exist, and []
\* when int() or float() raises on a row (lines 354-361, caught at line 366)
load_existing_data(f) == IF f.exists /\ f.numeric THEN f.rows ELSE <<>>

SeqRange(s) == {s[i] : i \in 1..Len(s)}

\* Mutant of Merge: the existing records end up in reverse order.
Merge_BaselineReversed(repos, fetched) ==
    LET existing_urls == SeqRange(repos)
        IsNew(u) == u \notin existing_urls
    IN  [i \in 1..Len(repos) |-> repos[Len(repos) + 1 - i]] \o SelectSeq(fetched, IsNew)

\* lines 501-503
Merge(repos, fetched) ==
    LET existing_urls == SeqRange(repos)
        IsNew(u) == u \notin existing_urls
    IN  repos \o SelectSeq(fetched, IsNew)

\* Mutant of MainBegin: the constructor does not test the token.
MainBegin_NoTokenTest ==
    /\ mpc = "start"
    /\ LET loaded == load_existing_data(file)
       IN  /\ existing_data' = loaded
           /\ IF Len(loaded) > 0
              THEN mpc' = "prompt" /\ UNCHANGED main_repositories
              ELSE mpc' = "collect" /\ main_repositories' = <<>>
    /\ UNCHANGED <<source, entry, pureVars, loopVars, token, response, file, file0, backup,
                   checkpoint, checkpoint_backup, target, remaining_repos, handed, writes, stats>>

\* lines 461-482, up to the prompt
MainBegin ==
    /\ mpc = "start"
    /\ IF ~token
       THEN /\ mpc' = "error"
            /\ UNCHANGED <<existing_data, main_repositories>>
       ELSE LET loaded == load_existing_data(file)
            IN  /\ existing_data' = loaded
                /\ IF Len(loaded) > 0
                   THEN mpc' = "prompt" /\ UNCHANGED main_repositories
                   ELSE mpc' = "collect" /\ main_repositories' = <<>>
    /\ UNCHANGED <<source, entry, pureVars, loopVars, token, response, file, file0, backup,
                   checkpoint, checkpoint_backup, target, remaining_repos, handed, writes, stats>>

\* line 469: what input() gives: the answer "c", another answer ("r"), or
\* EOFError when stdin is closed or at its end
Inputs == {"c", "r", "EOFError"}

\* lines 469-480: the answer to "continuar ou recomecar? (c/r)".  EOFError
\* is an Exception: it leaves response unset and is caught at line 531.
MainPrompt ==
    /\ mpc = "prompt"
    /\ \E answer \in Inputs :
          IF answer = "EOFError"
          THEN /\ mpc' = "error"
               /\ UNCHANGED <<response, main_repositories, stats>>
          ELSE /\ response' = answer
               /\ IF answer = "c"
                  THEN /\ main_repositories' = existing_data
                       /\ IF Len(existing_data) >= CompleteThreshold
                          THEN /\ stats' = Append(stats, Len(existing_data))
                               /\ mpc' = "finished"
                          ELSE /\ mpc' = "collect"
                               /\ UNCHANGED stats
                  ELSE /\ main_repositories' = <<>>
                       /\ mpc' = "collect"
                       /\ UNCHANGED stats
    /\ UNCHANGED <<source, entry, pureVars, loopVars, token, file, file0, backup,
                   checkpoint, checkpoint_backup, existing_data, target, remaining_repos, handed, writes>>

\* lines 485-492
TargetFor(repos) == IF Len(repos) = 0 THEN Lab01S01Target ELSE Lab01S02Target

\* lines 485-496: the target, and the call of fetch_top_repositories(target)
MainCollect ==
    /\ mpc = "collect"
    /\ target' = TargetFor(main_repositories)
    /\ IF Len(main_repositories) < target'
       THEN /\ EnterFetch(target')
            /\ mpc' = "fetching"
       ELSE /\ mpc' = "persist"
            /\ UNCHANGED loopVars
    /\ UNCHANGED <<source, entry, pureVars, token, response, file, file0, backup, checkpoint, checkpoint_backup,
                   existing_data, main_repositories, remaining_repos, handed, writes, stats>>

\* lines 496-506: fetch_top_repositories returned (its locals are gone;
\* exit keeps why it ended)
MainMerge ==
    /\ mpc = "fetching"
    /\ pc = "returned"
    /\ remaining_repos' = repositories
    /\ main_repositories' = IF main_repositories # <<>>
                            THEN Merge(main_repositories, repositories)
                            ELSE repositories
    \* line 473 made repositories an alias of existing_data: extend (line 503)
    \* changes both
    /\ existing_data' = IF main_repositories # <<>>
                        THEN main_repositories' ELSE existing_data
    /\ mpc' = "persist"
    /\ SetLoop(Discarded)
    /\ UNCHANGED <<source, entry, pureVars, token, response, file, file0, backup,
                   checkpoint, checkpoint_backup, target, handed, writes, stats>>

\* lines 305-308 (also 313-316, 324-327): `with open(name, 'w') ...:
\* writeheader(); writerows(rows)`.  The write succeeds, or raises at open
\* (the file is as it was), or raises after open truncated the file, with
\* the first k rows written (k up to MaxWritten).
Write(old, rows) ==
    {[ok |-> TRUE, file |-> FileOf(rows)], [ok |-> FALSE, file |-> old]}
    \cup {[ok |-> FALSE, file |-> FileOf(SubSeq(rows, 1, k))] :
             k \in 0..Min(Len(rows), MaxWritten)}

Attempt(name, w) == [to |-> name, ok |-> w.ok]

Done(W) == {w \in W : w.ok}
Failed(W) == {w \in W : ~w.ok}

\* lines 304-330: the writes of save_to_csv_with_backup(rows, name), where
\* old is the file of that name; the backup has a name of its own.  What is
\* left: the file, the backup, and the writes attempted, in order.
Persist(old, rows) ==
    LET P == Write(old, rows)
        B == Write(NoFile, rows)
    IN  \* lines 305-318: both writes succeed
        {[file |-> p.file, backup |-> b.file,
          writes |-> <<Attempt("primary", p), Attempt("backup", b)>>] :
             p \in Done(P), b \in Done(B)}
        \* line 305-308 raised: lines 323-330 write the backup
        \cup {[file |-> p.file, backup |-> b.file,
               writes |-> <<Attempt("primary", p), Attempt("backup", b)>>] :
                  p \in Failed(P), b \in B}
        \* lines 313-316 raised: lines 323-330 write the same backup again
        \cup UNION {{[file |-> p.file, backup |-> b2.file,
                      writes |-> <<Attempt("primary", p), Attempt("backup", b),
                                   Attempt("backup", b2)>>] :
                         p \in Done(P), b2 \in Write(b.file, rows)} : b \in Failed(B)}

\* The same writes when KeyboardInterrupt arrives in one of them, or between
\* two of them (lines 310-313, 321-323): a write it arrives in is left as a
\* failed one, and none follows (the handlers at lines 320 and 329 do not
\* catch it).
PersistCut(old, rows) ==
    LET P == Write(old, rows)
        B == Write(NoFile, rows)
    IN  {[file |-> p.file, backup |-> NoFile,
          writes |-> <<Attempt("primary", p)>>] : p \in P}
        \cup {[file |-> p.file, backup |-> b.file,
               writes |-> <<Attempt("primary", p), Attempt("backup", b)>>] :
                  p \in P, b \in Failed(B)}
        \cup UNION {{[file |-> p.file, backup |-> b2.file,
                      writes |-> <<Attempt("primary", p), Attempt("backup", b),
                                   Attempt("backup", b2)>>] :
                         p \in Done(P), b2 \in Failed(Write(b.file, rows))} :
                            b \in Failed(B)}

\* line 291: os.makedirs('data', exist_ok=True) can only raise when there is
\* no directory data, hence no data file; it is outside the try of line 304
Makedirs(old) == IF old.exists THEN {TRUE} ELSE BOOLEAN

\* line 509 and lines 286-330: save_to_csv_with_backup(repositories).  An
\* exception of a write is caught inside (lines 320, 329) and main goes on;
\* an exception of os.makedirs reaches main's handler at line 531.
MainPersist ==
    /\ mpc = "persist"
    /\ \E made \in Makedirs(file) :
          IF made
          THEN /\ \E s \in Persist(file, main_repositories) :
                     /\ file' = s.file
                     /\ backup' = s.backup
                     /\ writes' = s.writes
               /\ mpc' = "checkpoint"
          ELSE /\ mpc' = "error"
               /\ UNCHANGED <<file, backup, writes>>
    /\ handed' = Append(handed, main_repositories)
    /\ UNCHANGED <<source, entry, pureVars, loopVars, token, response, file0, checkpoint,
                   checkpoint_backup, existing_data, main_repositories, target,
                   remaining_repos, stats>>

\* lines 511-513, 332-341 and 452-454: save_checkpoint calls save_to_csv,
\* which calls save_to_csv_with_backup(repositories, the checkpoint's name):
\* the checkpoint file and a backup of it are written as at line 509 (the
\* directory data exists by now).  writes keeps the writes of line 509.
MainCheckpoint ==
    /\ mpc = "checkpoint"
    /\ IF Len(main_repositories) >= CheckpointThreshold
       THEN /\ \E s \in Persist(checkpoint, main_repositories) :
                  /\ checkpoint' = s.file
                  /\ checkpoint_backup' = s.backup
            /\ handed' = Append(handed, main_repositories)
       ELSE UNCHANGED <<checkpoint, checkpoint_backup, handed>>
    /\ mpc' = "stats"
    /\ UNCHANGED <<source, entry, pureVars, loopVars, token, response, file, file0, backup,
                   existing_data, main_repositories, target, remaining_repos,
                   writes, stats>>

\* lines 515-526 and 375-383: ages_sorted[len // 2] raises IndexError on an
\* empty list, caught at line 531
MainStats ==
    /\ mpc = "stats"
    /\ stats' = Append(stats, Len(main_repositories))
    /\ mpc' = IF Len(main_repositories) = 0 THEN "error" ELSE "finished"
    /\ UNCHANGED <<source, entry, pureVars, loopVars, token, response, file, file0, backup,
                   checkpoint, checkpoint_backup, existing_data, main_repositories, target,
                   remaining_repos, handed, writes>>

\* The variables of main() and the files, as one record.
MainNow ==
    [file |-> file, backup |-> backup, checkpoint |-> checkpoint,
     checkpoint_backup |-> checkpoint_backup, existing_data |-> existing_data,
     response |-> response, main_repositories |-> main_repositories,
     target |-> target, remaining_repos |-> remaining_repos, handed |-> handed,
     writes |-> writes, stats |-> stats]

SetMain(r) ==
    /\ file' = r.file
    /\ backup' = r.backup
    /\ checkpoint' = r.checkpoint
    /\ checkpoint_backup' = r.checkpoint_backup
    /\ existing_data' = r.existing_data
    /\ response' = r.response
    /\ main_repositories' = r.main_repositories
    /\ target' = r.target
    /\ remaining_repos' = r.remaining_repos
    /\ handed' = r.handed
    /\ writes' = r.writes
    /\ stats' = r.stats

\* The points at which KeyboardInterrupt can find main outside the loop of
\* fetch_top_repositories, as the values of main's variables, of the files
\* and of the loop's variables there.  Line 465: before and after the file
\* was loaded.  Lines 469-477: in input(), after the answer, after line 473,
\* in print_detailed_stats.  Lines 485-496: before and after the target, and
\* in lines 149-155 of the call.  Lines 496-506: in the prints of lines
\* 230-232, after the call returned, after the merge.  Lines 509 and 513:
\* before the call, in it before the first write, in a write or between two
\* writes, after the last write.  Lines 516-526: before print_detailed_stats,
\* and in it or after it.
MainCuts ==
    LET now == MainNow
        cut(m) == [main |-> m, loop |-> LoopNow]
        called == [now EXCEPT !.handed = Append(handed, main_repositories)]
    IN  CASE mpc = "start" ->
               {cut(now)}
               \cup IF token
                    THEN {cut([now EXCEPT !.existing_data = load_existing_data(file)])}
                    ELSE {}
          [] mpc = "prompt" ->
               LET continued == [now EXCEPT !.response = "c",
                                            !.main_repositories = existing_data]
               IN  {cut(now), cut([now EXCEPT !.response = "c"]),
                    cut([now EXCEPT !.response = "r"]), cut(continued)}
                   \cup IF Len(existing_data) >= CompleteThreshold
                        THEN {cut([continued EXCEPT
                                      !.stats = Append(stats, Len(existing_data))])}
                        ELSE {}
          [] mpc = "collect" ->
               LET aimed == [now EXCEPT !.target = TargetFor(main_repositories)]
               IN  {cut(now), cut(aimed)}
                   \cup IF Len(main_repositories) < aimed.target
                        THEN {[main |-> aimed,
                               loop |-> [Entered(aimed.target) EXCEPT
                                            !.pc = "interrupted",
                                            !.exit = "interrupt"]]}
                        ELSE {}
          [] mpc = "fetching" ->
               LET back == [now EXCEPT !.remaining_repos = repositories]
                   merged == IF main_repositories # <<>>
                             THEN Merge(main_repositories, repositories)
                             ELSE repositories
               IN  {cut(now), [main |-> back, loop |-> Discarded],
                    [main |-> [back EXCEPT
                                  !.main_repositories = merged,
                                  !.existing_data = IF main_repositories # <<>>
                                                    THEN merged ELSE existing_data],
                     loop |-> Discarded]}
          [] mpc = "persist" ->
               {cut(now), cut(called)}
               \cup {cut([called EXCEPT !.file = s.file, !.backup = s.backup,
                                        !.writes = s.writes]) :
                        s \in PersistCut(file, main_repositories)
                              \cup Persist(file, main_repositories)}
          [] mpc = "checkpoint" ->
               {cut(now)}
               \cup IF Len(main_repositories) >= CheckpointThreshold
                    THEN {cut(called)}
                         \cup {cut([called EXCEPT !.checkpoint = s.file,
                                                  !.checkpoint_backup = s.backup]) :
                                  s \in PersistCut(checkpoint, main_repositories)
                                        \cup Persist(checkpoint, main_repositories)}
                    ELSE {}
          [] mpc = "stats" ->
               {cut(now),
                cut([now EXCEPT !.stats = Append(stats, Len(main_repositories))])}
          [] OTHER -> {cut(now)}

\* lines 528-530: KeyboardInterrupt while main runs outside the loop of
\* fetch_top_repositories; the handler only prints
MainInterrupt ==
    /\ mpc \in (IF pc = "returned" THEN {"fetching"}
                ELSE {"start", "prompt", "collect", "persist", "checkpoint", "stats"})
    /\ \E c \in MainCuts : SetMain(c.main) /\ SetLoop(c.loop)
    /\ mpc' = "interrupted"
    /\ UNCHANGED <<source, entry, pureVars, token, file0>>

\* The rows a previous run may have left in data/repositories_data.csv.
Pad(k) == [i \in 1..k |-> MaxUrl + i]

Files ==
    {NoFile}
    \cup {FileOf(rows) : rows \in SeqsUpTo(1..MaxUrl, MaxBaseline)}
    \cup {Garbled(rows) : rows \in SeqsUpTo(1..MaxUrl, MaxBaseline) \ {<<>>}}
    \cup {FileOf(Pad(k)) : k \in (CompleteThreshold - MaxBaseline)..CompleteThreshold}

\* The files of at most one row.
ShortFiles ==
    {NoFile, FileOf(<<>>)}
    \cup {FileOf(<<u>>) : u \in 1..MaxUrl}
    \cup {Garbled(<<u>>) : u \in 1..MaxUrl}

InitMain(sources, files) ==
    /\ source \in sources
    /\ entry = "main"
    /\ limit = 0
    /\ repositories = <<>>
    /\ cursor = None
    /\ page_count = 0
    /\ request = NoRequest
    /\ result = NoResult
    /\ repos_processed = 0
    /\ pc = "idle"
    /\ outcome = NoOutcome
    /\ exit = "none"
    /\ faults = 0
    /\ paused = {}
    /\ lost = 0
    /\ token \in BOOLEAN
    /\ file \in files
    /\ file0 = file
    /\ backup = NoFile
    /\ checkpoint = NoFile
    /\ checkpoint_backup = NoFile
    /\ mpc = "start"
    /\ existing_data = <<>>
    /\ response = "none"
    /\ main_repositories = <<>>
    /\ target = 0
    /\ remaining_repos = <<>>
    /\ handed = <<>>
    /\ writes = <<>>
    /\ stats = <<>>
    /\ repo = NoRepo
    /\ repo_data = NoData
    /\ dpc = "idle"
    /\ sample = <<>>
    /\ medians = NoMedians
    /\ spc = "idle"

Init == InitMain(Sources(MaxPages), Files)

Next ==
    \/ MainBegin
    \/ MainPrompt
    \/ MainCollect
    \/ LoopHead
    \/ FetchTransportError
    \/ FetchBody
    \/ ProcessPage
    \/ Interrupt
    \/ MainMerge
    \/ MainPersist
    \/ MainCheckpoint
    \/ MainStats
    \/ MainInterrupt

Spec == Init /\ [][Next]_vars

\* ------------------------------- main() against a source of at most one page
InitOnePage == InitMain(Sources(1), Files)

SpecOnePage == InitOnePage /\ [][Next]_vars

\* ------------- main() against a source of at most one page, a short file
InitShort == InitMain(Sources(1), ShortFiles)

SpecShort == InitShort /\ [][Next]_vars

\* ---------- main() against a source of at most one page, a loadable file
\* The files that load_existing_data loads and that bring the run to the
\* prompt of line 469: one or two rows of any urls (a url may repeat: the
\* file of a previous run can hold a record twice), and up to MaxBaseline
\* rows of distinct urls, in every order.
Distinct(rows) == \A i, j \in 1..Len(rows) : rows[i] = rows[j] => i = j

BaselineFiles ==
    {FileOf(rows) :
        rows \in (SeqsUpTo(1..MaxUrl, 2)
                    \cup {r \in SeqsUpTo(1..MaxUrl, MaxBaseline) : Distinct(r)})
                 \ {<<>>}}

InitResume == InitMain(Sources(1), BaselineFiles)

SpecResume == InitResume /\ [][Next]_vars

\* ---------------------------------------------- main() with a short file
InitPages == InitMain(Sources(MaxPages), ShortFiles)

SpecPages == InitPages /\ [][Next]_vars

\* ------------------------- main() against full pages of max_per_request
\* The sources that hold enough pages of max_per_request derivable records
\* each for a collection to pass CheckpointThreshold records; the file of a
\* previous run holds one record, so that the target is Lab01S02Target.
BulkShapes ==
    [oks : {[j \in 1..max_per_request |-> TRUE]}, hasNextPage : BOOLEAN]

BulkSources ==
    {MakePages(shapes, 0) :
        shapes \in [1..(CheckpointThreshold \div max_per_request + 1) -> BulkShapes]}

InitBulk == InitMain(BulkSources, {FileOf(<<1>>)})

SpecBulk == InitBulk /\ [][Next]_vars


\* ---------------------------------------------------- print_detailed_stats
\* The variables of fetch_top_repositories and of main() while a function is
\* followed on its own.
LoopIdle ==
    /\ limit = 0 /\ repositories = <<>> /\ cursor = None /\ page_count = 0
    /\ request = NoRequest /\ result = NoResult /\ repos_processed = 0
    /\ pc = "idle" /\ outcome = NoOutcome /\ exit = "none" /\ faults = 0
    /\ paused = {} /\ lost = 0

MainIdle ==
    /\ token = TRUE /\ file = NoFile /\ file0 = NoFile /\ backup = NoFile
    /\ checkpoint = NoFile /\ checkpoint_backup = NoFile
    /\ mpc = "none" /\ existing_data = <<>>
    /\ response = "none" /\ main_repositories = <<>> /\ target = 0
    /\ remaining_repos = <<>> /\ handed = <<>> /\ writes = <<>> /\ stats = <<>>

\* lines 382, 435: sorted(), as an insertion sort
RECURSIVE Insert(_, _)
Insert(x, s) ==
    IF s = <<>> THEN <<x>>
    ELSE IF x <= Head(s) THEN <<x>> \o s
    ELSE <<Head(s)>> \o Insert(x, Tail(s))

RECURSIVE sorted(_)
sorted(s) == IF s = <<>> THEN <<>> ELSE Insert(Head(s), sorted(Tail(s)))

\* Mutant of Median: the lower of the two central elements.
Median_LowerMiddle(s) == s[((Len(s) - 1) \div 2) + 1]

\* lines 383, 436: ages_sorted[len(ages_sorted) // 2] (Python indexes from 0)
Median(s) == s[(Len(s) \div 2) + 1]

\* lines 381, 434
ages == [i \in 1..Len(sample) |-> sample[i].age_days]
issue_ratios == [i \in 1..Len(sample) |-> sample[i].closed_issues_percentage]

\* lines 375-436: the medians of age_days (RQ01) and closed_issues_percentage
\* (RQ06); the medians of lines 393, 403, 413 and 448 are the same expression
\* over other columns.  On an empty list line 383 raises IndexError.
PrintDetailedStats ==
    /\ spc = "called"
    /\ IF sample = <<>>
       THEN /\ spc' = "index_error"
            /\ UNCHANGED medians
       ELSE /\ medians' = [age_days |-> Median(sorted(ages)),
                           closed_issues_percentage |-> Median(sorted(issue_ratios))]
            /\ spc' = "printed"
    /\ UNCHANGED <<source, entry, loopVars, mainVars, repo, repo_data, dpc, sample>>

\* The records print_detailed_stats may be given: an age in days and a
\* percentage in hundredths (0.00, 50.00 or 100.00).
StatsRecords == [age_days : 0..MaxAge, closed_issues_percentage : {0, 5000, 10000}]

InitStats ==
    /\ source = <<>>
    /\ entry = "print_detailed_stats"
    /\ LoopIdle
    /\ MainIdle
    /\ repo = NoRepo /\ repo_data = NoData /\ dpc = "idle"
    /\ sample \in SeqsUpTo(StatsRecords, MaxSample)
    /\ medians = NoMedians
    /\ spc = "called"

SpecStats == InitStats /\ [][PrintDetailedStats]_vars


\* ------------------------------------------------- process_repository_data
\* Python floats are IEEE 754 binary64: a float is m * 2^e with a significand
\* m of at most Precision bits, every operation rounded to nearest, ties to
\* even.  Significands do not fit the model checker's integers: a natural number
\* is kept as the sequence of its digits in base Radix, lowest digit first.
Precision == 53
Radix == 2^15

RECURSIVE BigOf(_)
BigOf(n) == IF n = 0 THEN <<>> ELSE <<n % Radix>> \o BigOf(n \div Radix)

RECURSIVE BigToInt(_)
BigToInt(x) == IF x = <<>> THEN 0 ELSE Head(x) + Radix * BigToInt(Tail(x))

RECURSIVE Trim(_)
Trim(x) ==
    IF x # <<>> /\ x[Len(x)] = 0 THEN Trim(SubSeq(x, 1, Len(x) - 1)) ELSE x

\* x * k + carry, for k < Radix
RECURSIVE BigMul(_, _, _)
BigMul(x, k, carry) ==
    IF x = <<>> THEN BigOf(carry)
    ELSE LET v == Head(x) * k + carry
         IN  <<v % Radix>> \o BigMul(Tail(x), k, v \div Radix)

\* quotient and remainder of x by d, for d <= Radix
RECURSIVE BigDivMod(_, _)
BigDivMod(x, d) ==
    IF x = <<>> THEN [q |-> <<>>, r |-> 0]
    ELSE LET hi == BigDivMod(Tail(x), d)
             v == hi.r * Radix + Head(x)
         IN  [q |-> <<v \div d>> \o hi.q, r |-> v % d]

RECURSIVE BigAdd1(_)
BigAdd1(x) ==
    IF x = <<>> THEN <<1>>
    ELSE IF Head(x) + 1 < Radix THEN <<Head(x) + 1>> \o Tail(x)
    ELSE <<0>> \o BigAdd1(Tail(x))

IsOdd(x) == x # <<>> /\ Head(x) % 2 = 1

RECURSIVE Bits(_)
Bits(n) == IF n = 0 THEN 0 ELSE 1 + Bits(n \div 2)

BitLen(x) == IF x = <<>> THEN 0 ELSE (Len(x) - 1) * 15 + Bits(x[Len(x)])

RECURSIVE ShiftLeft(_, _)
ShiftLeft(x, n) ==
    IF n >= 15 THEN <<0>> \o ShiftLeft(x, n - 15) ELSE BigMul(x, 2^n, 0)

\* x / 2^n rounded to the nearest integer, ties to even; sticky: a nonzero
\* bit was already dropped below x
RECURSIVE RoundShift(_, _, _)
RoundShift(x, n, sticky) ==
    IF n = 0 \/ x = <<>> THEN x
    ELSE IF n > 15 THEN RoundShift(Tail(x), n - 15, sticky \/ Head(x) # 0)
    ELSE LET low == BigDivMod(x, 2^(n - 1))
             g == BigDivMod(low.q, 2)
             q == Trim(g.q)
         IN  IF g.r = 1 /\ (sticky \/ low.r # 0 \/ IsOdd(q)) THEN BigAdd1(q) ELSE q

\* floor(log2(c / t)) for positive integers c, t
Log2Ratio(c, t) ==
    LET d == Bits(c) - Bits(t)
        cs == IF d < 0 THEN c * 2^(0 - d) ELSE c
        ts == IF d > 0 THEN t * 2^d ELSE t
    IN  IF cs >= ts THEN d ELSE d - 1

\* line 125: closed_issues / total_issues, the quotient of two ints as a float
TrueDiv(c, t) ==
    IF c = 0 THEN [m |-> <<>>, e |-> 0]
    ELSE LET k == (Precision - 1) - Log2Ratio(c, t)
             dm == BigDivMod(ShiftLeft(BigOf(c), k), t)
             q == Trim(dm.q)
             up == 2 * dm.r > t \/ (2 * dm.r = t /\ IsOdd(q))
         IN  [m |-> IF up THEN BigAdd1(q) ELSE q, e |-> 0 - k]

\* line 125: float * 100
FloatMul(x, n) ==
    LET p == BigMul(x.m, n, 0)
        s == IF BitLen(p) > Precision THEN BitLen(p) - Precision ELSE 0
    IN  [m |-> RoundShift(p, s, FALSE), e |-> x.e + s]


\* line 141: round(x, ndigits), correctly rounded (ties to even) on the exact
\* value of the float; the result is given in units of 10^-ndigits
round(x, ndigits) ==
    LET scaled == BigMul(x.m, 10^ndigits, 0)
    IN  IF x.e >= 0 THEN BigToInt(ShiftLeft(scaled, x.e))
        ELSE BigToInt(RoundShift(scaled, 0 - x.e, FALSE))

\* line 125
closed_issues_ratio(r) ==
    IF r.total_issues > 0
    THEN FloatMul(TrueDiv(r.closed_issues, r.total_issues), 100)
    ELSE [m |-> <<>>, e |-> 0]

\* lines 122-141: the derived record's closed_issues_percentage, in hundredths
ProcessRepositoryData ==
    /\ dpc = "called"
    /\ repo_data' = [closed_issues_percentage |-> round(closed_issues_ratio(repo), 2)]
    /\ dpc' = "returned"
    /\ UNCHANGED <<source, entry, loopVars, mainVars, repo, sample, medians, spc>>

\* lines 123-124: issues.totalCount and closedIssues.totalCount of the raw
\* record, two counts the code reads and does not compare
RawCounts == [total_issues : 0..MaxIssues, closed_issues : 0..MaxIssues]

InitDerive ==
    /\ source = <<>>
    /\ entry = "process_repository_data"
    /\ LoopIdle
    /\ MainIdle
    /\ repo \in RawCounts
    /\ repo_data = NoData
    /\ dpc = "called"
    /\ sample = <<>> /\ medians = NoMedians /\ spc = "idle"

SpecDerive == InitDerive /\ [][ProcessRepositoryData]_vars


\* ===================================================== claims C1 - C10
IsOk(e) == e.ok

RECURSIVE AllEdges(_)
AllEdges(pages) ==
    IF pages = <<>> THEN <<>> ELSE Head(pages).edges \o AllEdges(Tail(pages))

\* The urls of the records of `edges` for which derivation succeeds, in order.
DerivableUrls(edges) ==
    LET good == SelectSeq(edges, IsOk)
    IN  [i \in 1..Len(good) |-> good[i].url]

Take(s, n) == SubSeq(s, 1, Min(Len(s), n))

TotalAvailable == SumLen(source)
TotalDerivable == Len(DerivableUrls(AllEdges(source)))

\* Every page before the source's last is non-empty and reports hasNextPage.
Consistent ==
    \A i \in 1..(Len(source) - 1) : source[i].hasNextPage /\ source[i].edges # <<>>

\* No request of this call failed or came back without data.search, and
\* every page came with its pagination: pageInfo, and a cursor that is not
\* None.
CleanRun == faults = 0 /\ lost = 0 /\ exit \in {"none", "limit", "last", "empty"}

\* C1 as stated: fetch_top_repositories(target) halts with exactly
\* min(target, total records available) records and never holds more than
\* target.
C1_Original ==
    /\ Len(repositories) <= limit
    /\ pc = "returned" => Len(repositories) = Min(limit, TotalAvailable)

\* C1 amended: the accumulated count never exceeds target; at return it is
\* exactly min(target, number of derivable records available) when no
\* request failed, every page came with its pagination and the source's
\* paging is consistent.
C1_HaltsWithinTarget ==
    /\ Len(repositories) <= limit
    /\ (pc = "returned" /\ CleanRun /\ Consistent) =>
          Len(repositories) = Min(limit, TotalDerivable)

C1_Witness ==
    /\ entry = "fetch"
    /\ pc = "returned"
    /\ CleanRun /\ Consistent
    /\ page_count >= 2
    /\ Len(repositories) = limit
    /\ TotalDerivable > limit
    /\ TotalDerivable < TotalAvailable

\* The scenario of C2: target 5, pages of 2, 2 and 1 derivable records, each
\* reporting a further page (the page after them is empty), no failed request.
C2_Scenario ==
    /\ entry = "fetch"
    /\ limit = 5
    /\ Len(source) = 3
    /\ Len(source[1].edges) = 2 /\ Len(source[2].edges) = 2
    /\ Len(source[3].edges) = 1
    /\ \A i \in 1..3 : source[i].hasNextPage
    /\ TotalDerivable = 5
    /\ PageAfter(source, 3).edges = <<>>
    /\ CleanRun

\* C2 as stated: in the scenario the loop performs exactly 4 page fetches and
\* stops with 5 records, the fourth (empty) page ending the collection.
C2_Original ==
    (C2_Scenario /\ pc = "returned") =>
        page_count = 4 /\ Len(repositories) = 5 /\ exit = "empty"

\* C2 amended: in the scenario the loop performs exactly 3 page fetches and
\* stops with 5 records because the target is reached at line 208; the empty
\* fourth page is never requested.
C2_ThreeFetches ==
    /\ (C2_Scenario /\ pc = "returned") =>
          /\ page_count = 3
          /\ Len(repositories) = 5
          /\ exit = "last"
          /\ request.after = 2
    /\ C2_Scenario => page_count <= 3

C2_Witness == C2_Scenario /\ pc = "returned" /\ Len(repositories) = 5

NoDuplicates(s) == Cardinality(SeqRange(s)) = Len(s)

Resumed == entry = "main" /\ response = "c"

\* The baseline: what load_existing_data returned when the run started.
Baseline == load_existing_data(file0)

\* C3: on a resumed run with a baseline of size S and target T, at most
\* T - S records are fetched when S < T, and nothing is fetched when S >= T.
\* (The code calls fetch_top_repositories(target), line 496.)
C3_FetchesOnlyShortfall ==
    /\ (Resumed /\ mpc = "fetching" /\ Len(Baseline) < target) =>
          Len(repositories) <= target - Len(Baseline)
    /\ (Resumed /\ Len(Baseline) >= CompleteThreshold) =>
          pc = "idle" /\ page_count = 0

\* C4: no record set handed to save_to_csv_with_backup holds two records
\* with the same url (for a baseline that itself holds none).
C4_NoDuplicateUrls ==
    NoDuplicates(Baseline) =>
        \A k \in 1..Len(handed) : NoDuplicates(handed[k])

\* main() came to its end, or to its handler of line 531.
RunOver == mpc \in {"finished", "error"}

\* C5: when the first page fetch fails with a TransportError, the run ends
\* with nothing persisted: the primary file is as it was before the run and
\* no backup was written.
C5_FirstPageFailureLeavesFile ==
    (entry = "main" /\ RunOver /\ exit = "transport_error") =>
        file = file0 /\ backup = NoFile

\* What main would persist for the records accumulated so far (lines 499-506).
Collected ==
    IF main_repositories # <<>>
    THEN Merge(main_repositories, repositories)
    ELSE repositories

\* C6: after an interrupt that follows k >= 1 successfully processed pages,
\* the persisted output holds exactly the records of those pages.
C6_InterruptKeepsPages ==
    (entry = "main" /\ mpc = "interrupted" /\ cursor # None
        /\ repositories # <<>>) =>
        file.exists /\ file.rows = Collected

\* The pages fetched and processed successfully before the request in
\* flight: every earlier pass either ended in the handler (faults) or
\* processed its page.
PagesDoneBefore == page_count - 1 - faults

\* A request raises in make_graphql_request (non-200 status).
TransportFailed == pc = "fetching" /\ outcome' = Transport

\* A page is fetched and processed, lines 183-218, to the end.
Processed == pc = "processing" /\ pc' # "interrupted" /\ ~PageRaises(outcome)

\* What ProcessPage must append: the derivable records of the page, in page
\* order, as far as the target allows.
Appended == Take(DerivableUrls(result.edges), limit - Len(repositories))

MoreNeeded ==
    Len(repositories') < limit /\ result.hasNextPage /\ result.edges # <<>>

\* C7: a TransportError ends the loop if and only if no page was fetched
\* and processed before it; otherwise the loop goes on, nothing accumulated
\* is touched and the cursor stays that of the request that failed.  (Line
\* 225 tests the cursor, which line 212 can set back to None.)
C7_TransportFatalOnlyFirst ==
    [][ TransportFailed =>
          /\ (pc' = "returned") <=> (PagesDoneBefore = 0)
          /\ pc' = "returned" => exit' = "transport_error"
          /\ pc' # "returned" =>
                /\ pc' = "loop"
                /\ cursor' = request.after
                /\ repositories' = repositories ]_vars

\* C8: after a page is fetched and processed, another fetch follows (the
\* loop head is reached with fewer than target records) if and only if
\* fewer than target records are held, the page reported hasNextPage and the
\* page was not empty; otherwise the loop halts normally.
C8_ContinuesIffMoreNeeded ==
    [][ Processed =>
          /\ MoreNeeded <=> (pc' = "loop")
          /\ ~MoreNeeded => (pc' = "returned" /\ exit' \in {"last", "empty"})
          /\ result.edges = <<>> => exit' = "empty" ]_vars

C8_Witness ==
    /\ entry = "fetch"
    /\ pc = "returned"
    /\ exit = "empty"
    /\ result.edges = <<>>
    /\ result.hasNextPage
    /\ page_count >= 2
    /\ Len(repositories) < limit

\* C9: a body with an 'errors' payload and data is processed like any page:
\* its derivable records are ingested up to the target and the loop goes on
\* or halts by the page's pagination info.
C9_ErrorsWithDataIngested ==
    [][ /\ (pc = "fetching" /\ outcome'.errors /\ outcome'.data = "search") =>
              /\ pc' = "processing"
              /\ result' = PageAfter(source, cursor)
              /\ exit' = exit
        /\ (Processed /\ outcome.errors) =>
              /\ repositories' = repositories \o Appended
              /\ pc' = IF MoreNeeded THEN "loop" ELSE "returned" ]_vars

C9_Witness ==
    /\ entry = "fetch"
    /\ pc = "loop"
    /\ outcome.kind = "body" /\ outcome.errors /\ outcome.data = "search"
    /\ outcome.pageInfo = "full"
    /\ repos_processed >= 1
    /\ cursor = page_count - faults
    /\ \E i \in 1..Len(result.edges) : ~result.edges[i].ok

\* C10: processing a page appends exactly its derivable records, in page
\* order, truncated at the target; the processed count is the number
\* appended and at most the number fetched; a failing record never aborts.
C10_DerivationFailuresSkipped ==
    [][ (pc = "processing" /\ pc' # "interrupted") =>
          /\ repositories' = repositories \o Appended
          /\ result.edges # <<>> =>
                /\ repos_processed' = Len(Appended)
                /\ repos_processed' <= Len(result.edges)
          /\ pc' \in {"loop", "returned"}
          /\ ~PageRaises(outcome) => exit' \in {"none", "last", "empty"} ]_vars

C10_Witness ==
    /\ entry = "fetch"
    /\ pc = "loop"
    /\ outcome.data = "search"
    /\ faults = 0
    /\ Len(result.edges) = 2
    /\ ~result.edges[1].ok /\ result.edges[2].ok
    /\ repos_processed = 1
    /\ repositories # <<>>
    /\ repositories[Len(repositories)] = result.edges[2].url

\* ==================================================== claims C11 - C20
\* C11: whenever the page counter is a multiple of 5 and a further fetch
\* follows, a pacing pause runs between that page and the next fetch,
\* whether the page was processed or its request failed; no pause runs after
\* a page whose number is not a multiple of 5.  (The pause of lines 215-218
\* is inside the try block: the `continue` of line 226 skips it.)
C11_PausesEveryFifthPage ==
    [][ /\ (pc \in {"fetching", "processing"} /\ pc' = "loop"
                /\ PauseDue(page_count)) => page_count \in paused'
        /\ \A n \in paused' : PauseDue(n) ]_vars

\* C12: when GITHUB_TOKEN is not set the run ends in the error handler with
\* no request made, the data file not loaded, and nothing written (primary
\* file, backup, checkpoint) or summarised.
C12_NoCredentialNoIO ==
    (entry = "main" /\ ~token) =>
        /\ mpc \in {"start", "error", "interrupted"}
        /\ pc = "idle" /\ page_count = 0
        /\ request = NoRequest /\ outcome = NoOutcome
        /\ existing_data = <<>> /\ response = "none"
        /\ file = file0 /\ backup = NoFile
        /\ checkpoint = NoFile /\ checkpoint_backup = NoFile
        /\ handed = <<>> /\ writes = <<>> /\ stats = <<>>

C12_Witness ==
    /\ entry = "main"
    /\ ~token
    /\ mpc = "error"
    /\ file.exists /\ file.rows # <<>>

PrimaryFailed == writes # <<>> /\ ~writes[1].ok

\* C13: when the primary write fails, exactly one further write is
\* attempted, of the backup only; and when that fails too, the primary file
\* still holds what it held before the run.  (Of the calls that returned:
\* an interrupted one is not looked at.)
C13_PersistDegrades ==
    (entry = "main" /\ mpc # "interrupted" /\ PrimaryFailed) =>
        /\ Len(writes) = 2
        /\ writes[1].to = "primary" /\ writes[2].to = "backup"
        /\ (~writes[2].ok /\ file0.rows # <<>>) => file = file0

\* The value m is the element at index r (from 0) of the sorted column.
AtIndex(col, m, r) ==
    /\ \E i \in 1..Len(col) : col[i] = m
    /\ Cardinality({i \in 1..Len(col) : col[i] < m}) <= r
    /\ Cardinality({i \in 1..Len(col) : col[i] <= m}) >= r + 1

\* C14 as stated: for an even number of records the median reported is the
\* lower of the two central elements of the sorted column, for an odd number
\* the middle element.
C14_Original ==
    spc = "printed" =>
        LET lower == (Len(sample) - 1) \div 2
        IN  /\ AtIndex(ages, medians.age_days, lower)
            /\ AtIndex(issue_ratios, medians.closed_issues_percentage, lower)

\* C14 amended: for an even number of records the median reported is the
\* upper of the two central elements of the sorted column (index len // 2
\* from 0), for an odd number the middle element.
C14_UpperMiddle ==
    spc = "printed" =>
        LET upper == Len(sample) \div 2
        IN  /\ AtIndex(ages, medians.age_days, upper)
            /\ AtIndex(issue_ratios, medians.closed_issues_percentage, upper)

C14_Witness ==
    /\ spc = "printed"
    /\ Len(sample) = 4
    /\ AtIndex(ages, medians.age_days, 2)
    /\ ~AtIndex(ages, medians.age_days, 1)
    /\ ~AtIndex(issue_ratios, medians.closed_issues_percentage, 1)

\* n / d rounded to the nearest integer, a tie going to the even neighbour
\* (HalfEven) or upwards (HalfUp).
HalfEven(n, d) ==
    LET q == n \div d
        r == n % d
    IN  IF 2 * r > d \/ (2 * r = d /\ q % 2 = 1) THEN q + 1 ELSE q

HalfUp(n, d) == (2 * n + d) \div (2 * d)

\* C15: closed_issues_percentage is 0 when total_issues = 0 and otherwise
\* 100 * closed_issues / total_issues rounded to 2 decimal places (either
\* usual rule for ties is accepted); the call returns in both cases.  The
\* percentage is in hundredths: 100.00 is 10000.
C15_PercentageRounded ==
    dpc = "returned" =>
        LET pct == repo_data.closed_issues_percentage
            exact == 10000 * repo.closed_issues
        IN  IF repo.total_issues = 0 THEN pct = 0
            ELSE \/ pct = HalfEven(exact, repo.total_issues)
                 \/ pct = HalfUp(exact, repo.total_issues)

\* C16: every derived record has 0 <= closed_issues_percentage <= 100 (in
\* hundredths: at most 10000), for every pair of non-negative counts
\* total_issues and closed_issues of the raw record.  (Line 125 divides and
\* scales, line 141 rounds: neither compares the two counts nor clamps.)
C16_PercentageInRange ==
    dpc = "returned" =>
        /\ repo_data.closed_issues_percentage >= 0
        /\ repo_data.closed_issues_percentage <= 10000

\* C17: a checkpoint of the accumulated records is saved during collection,
\* every 200 repositories: once the collection loop has ended with at least
\* 200 records accumulated, a checkpoint holding at least 200 records is on
\* durable storage.  (save_checkpoint is only called at line 513, after the
\* loop and after the final save.)
C17_CheckpointMidRun ==
    (entry = "main" /\ mpc = "fetching" /\ pc = "returned"
        /\ Len(repositories) >= CheckpointThreshold) =>
        checkpoint.exists /\ Len(checkpoint.rows) >= CheckpointThreshold

\* C18: the collection loop halts under every sequence of page outcomes,
\* repeated transport failures after the first page included.  The loop
\* keeps no count of failed requests: what decides its next pass is only
\* repositories, cursor and the source's answer (page_count is printed and
\* paces the pauses).  It therefore halts under every sequence of outcomes
\* exactly when every pass that does not end the loop moves it forward: a
\* pass that leaves cursor and repositories as they were can be repeated
\* for as long as the source answers the same way.
C18_EveryPassProgresses ==
    [][ (pc \in {"fetching", "processing"} /\ pc' = "loop") =>
            \/ cursor' > cursor
            \/ Len(repositories') > Len(repositories) ]_vars

\* The derivable records of the first k pages of the source, in order, as
\* far as the target allows.
FirstPages(k) == Take(DerivableUrls(AllEdges(SubSeq(source, 1, k))), limit)

\* C19: between two pages and at return, the accumulated sequence is the
\* in-order concatenation of the derivable records of the first k pages of
\* the source, truncated at the target, for some k: no page is skipped and
\* no page contributes twice.  (Lines 191-201 append the records of a page
\* before lines 206-212 read its pagination: a page whose pagination raises,
\* or whose endCursor is None, is asked for again.)
C19_AccumulatedIsPagePrefix ==
    pc \in {"loop", "fetching", "processing", "returned"} =>
        \E k \in 0..Len(source) : repositories = FirstPages(k)

NotInBaseline(u) == u \notin SeqRange(Baseline)

\* C20: on a resumed run every record set handed to save_to_csv_with_backup
\* starts with the baseline, unchanged and in its order; what follows are
\* the fetched records whose url is not in the baseline, in fetch order
\* (nothing when the fetch returned nothing).
C20_BaselineIsPrefix ==
    Resumed =>
        \A k \in 1..Len(handed) :
            /\ Len(handed[k]) >= Len(Baseline)
            /\ SubSeq(handed[k], 1, Len(Baseline)) = Baseline
            /\ SubSeq(handed[k], Len(Baseline) + 1, Len(handed[k]))
                  = SelectSeq(remaining_repos, NotInBaseline)

\* A baseline of two records not in url order, one of them fetched again,
\* and one new record fetched.
C20_Witness ==
    /\ Resumed
    /\ mpc = "finished"
    /\ Len(handed) = 1
    /\ Len(Baseline) = 2
    /\ Baseline[1] > Baseline[2]
    /\ Len(remaining_repos) = 2
    /\ Baseline[2] \in SeqRange(remaining_repos)
    /\ Len(handed[1]) = 3
    /\ handed[1][1] = Baseline[1]
    /\ handed[1][2] = Baseline[2]

\* C21: in every run of main, print_detailed_stats is only reached with at
\* least one record, so that the index len // 2 of its median lookups (line
\* 383) is within the sorted list.  (stats holds the sizes of the record
\* sets print_detailed_stats was called with.)
C21_StatsNeverOnEmpty ==
    entry = "main" =>
        \A k \in 1..Len(stats) :
            /\ stats[k] >= 1
            /\ stats[k] \div 2 < stats[k]
====
